---- MODULE Spec2Model ----
(***************************************************************************)
(* Model of the orchestration core of research-agent-v2.jsx: the working   *)
(* source set, the three-stage pipeline, the refinement chat and the       *)
(* library.  Every async handler (addUrl, runPipeline, sendChat) is a task *)
(* that is suspended at its network call; the values it captured from the  *)
(* render in which it was started (its closure) are fields of the task.    *)
(* State updates made between two awaits are one atomic step.              *)
(*                                                                         *)
(* The storage backend keeps a JSON text, modelled as its token sequence:  *)
(* saveLibrary writes JSON.stringify of the library, loadLibrary parses    *)
(* what it reads.  Both the write and the read can throw.  Spec starts     *)
(* from a storage that is empty or was written by the program;             *)
(* SpecAnyStore also starts from texts the program did not write, and      *)
(* SpecShortDraft from a library with a saved draft of one character.      *)
(* SpecLive adds that every network call is answered.  The variable        *)
(* deleted is history: the deleteLibItem calls made so far.                *)
(*                                                                         *)
(* Presentation state (view, sidebarOpen, the text of the input fields) is *)
(* not modelled: the navigation buttons are always rendered, so every      *)
(* view can be reached at any time, and the text of an input field is the  *)
(* parameter of the action that submits it.  Render conditions that depend *)
(* on data (a button that exists only while draft is non-empty) are kept.  *)
(***************************************************************************)
EXTENDS Integers, Sequences, FiniteSets, Bags, TLC

VARIABLES
  sources,           \* working source set                       (useState, line 145)
  fetchingUrl,       \* URL fetch in progress flag               (line 149)
  pipelineStage,     \* 0=idle 1=research 2=outline 3=writing 4=done (line 153)
  researchAnalysis,  \* (line 154)
  outline,           \* (line 155)
  draft,             \* (line 156)
  chatMessages,      \* refinement transcript                    (line 160)
  chatLoading,       \* refinement call in flight flag           (line 162)
  library,           \* in-memory library                        (line 166)
  error,             \* user-visible error                       (line 174)
  stored,            \* value kept under STORAGE_KEY by the storage backend
  deleted,           \* history: <<category, id>> of every deleteLibItem call
  tasks,             \* bag of the suspended async handlers
  ops,               \* number of handler invocations by the user so far
  ev                 \* the handler step that led to this state (observation only)

vars == <<sources, fetchingUrl, pipelineStage, researchAnalysis, outline, draft,
          chatMessages, chatLoading, library, error, stored, deleted, tasks,
          ops, ev>>

-----------------------------------------------------------------------------
(* Bounds of the model *)

\* The user invokes at most MaxOps handlers; every network call they issue is
\* answered in every possible order.
MaxOps == 4

\* The same budget in the specification with fairness, whose check has to
\* build the behaviour graph.
MaxLiveOps == 3

-----------------------------------------------------------------------------
(* Texts *)

RECURSIVE Text(_, _)
Text(c, n) == IF n = 0 THEN "" ELSE c \o Text(c, n - 1)

\* What the mocked agents answer.  An answer may be empty: callAgent resolves
\* a response without text blocks to "".
ResearchTexts == {Text("a", 2)}
OutlineTexts == {Text("o", 2)}
WritingTexts == {"", Text("d", 4)}
ChatTexts == {"", Text("x", 2), Text("x", 3)}
UrlTexts == {Text("u", 1)}
Statuses == {"500"}

\* Inputs the user may type into a field; Trim is String.prototype.trim on them.
Blank == " "
UrlInputs == {Blank, " http://a "}
TextInputs == {Blank, "pasted"}
ChatInputs == {Blank, " edit "}
NoteInputs == {Blank, "noted"}
Angles == {""}
Formats == {"blog"}

Trim(s) ==
  CASE s = Blank -> ""
    [] s = " http://a " -> "http://a"
    [] s = " edit " -> "edit"
    [] OTHER -> s

\* a || b on strings: the empty string is falsy.
OrElse(a, b) == IF a = "" THEN b ELSE a

-----------------------------------------------------------------------------
(* Agent prompts (configuration) and the failure an agent call can end in *)

RESEARCH_AGENT == "RESEARCH_AGENT"
OUTLINE_AGENT == "OUTLINE_AGENT"
WRITING_AGENT == "WRITING_AGENT"
CHAT_REFINE == "CHAT_REFINE"
WEB_FETCH == "WEB_FETCH"

\* callAgent / callAgentChat: throw new Error(`API ${res.status}`)
ApiError(status) == "API " \o status
\* fetchUrlContent: throw new Error(`Fetch failed: ${res.status}`)
FetchFailed(status) == "Fetch failed: " \o status

-----------------------------------------------------------------------------
(* Storage *)

STORAGE_KEY == "ra:library-v2"

EmptyLibrary == [sources |-> <<>>, drafts |-> <<>>, notes |-> <<>>]
Categories == {"sources", "drafts", "notes"}

\* A JSON text is the sequence of its tokens: punctuation and string literals.
Punct(p) == [t |-> p, v |-> ""]
Str(s) == [t |-> "string", v |-> s]

\* The keys of a record in the order in which the handlers write them
\* (lines 196, 207, 215 for a source, line 269 for a draft).
SourceKeys == <<"id", "type", "title", "content">>
DraftKeys == <<"id", "title", "content", "outline", "analysis", "format">>
LibraryKeys == <<"sources", "drafts", "notes">>
KeysOf(record) == IF "format" \in DOMAIN record THEN DraftKeys ELSE SourceKeys

\* JSON.stringify of a record whose fields are strings
RECURSIVE StringifyMembers(_, _, _)
StringifyMembers(record, keys, i) ==
  IF i > Len(keys) THEN <<>>
  ELSE (IF i > 1 THEN <<Punct(",")>> ELSE <<>>)
         \o <<Str(keys[i]), Punct(":"), Str(record[keys[i]])>>
         \o StringifyMembers(record, keys, i + 1)
StringifyRecord(record) ==
  <<Punct("{")>> \o StringifyMembers(record, KeysOf(record), 1) \o <<Punct("}")>>

\* JSON.stringify of an array of such records
RECURSIVE StringifyItems(_, _)
StringifyItems(list, i) ==
  IF i > Len(list) THEN <<>>
  ELSE (IF i > 1 THEN <<Punct(",")>> ELSE <<>>)
         \o StringifyRecord(list[i]) \o StringifyItems(list, i + 1)
\* Mutant of StringifyList: only the first record is written.
StringifyList_FirstOnly(list) ==
  <<Punct("[")>> \o StringifyItems(SubSeq(list, 1, IF Len(list) > 1 THEN 1 ELSE Len(list)), 1)
    \o <<Punct("]")>>
StringifyList(list) == <<Punct("[")>> \o StringifyItems(list, 1) \o <<Punct("]")>>

\* JSON.stringify(lib), line 132
RECURSIVE StringifyLists(_, _)
StringifyLists(lib, i) ==
  IF i > Len(LibraryKeys) THEN <<>>
  ELSE (IF i > 1 THEN <<Punct(",")>> ELSE <<>>)
         \o <<Str(LibraryKeys[i]), Punct(":")>> \o StringifyList(lib[LibraryKeys[i]])
         \o StringifyLists(lib, i + 1)
Serialize(lib) == <<Punct("{")>> \o StringifyLists(lib, 1) \o <<Punct("}")>>

\* JSON.parse, line 124: a recursive descent over the tokens.  A parse result is
\* the value and the position after it, or a SyntaxError.
SyntaxError == [ok |-> FALSE, value |-> <<>>, next |-> 0]
Parsed(value, next) == [ok |-> TRUE, value |-> value, next |-> next]
TokenAt(text, i) == IF i <= Len(text) THEN text[i].t ELSE "eof"

RECURSIVE ParseValue(_, _), ParseMembers(_, _, _), ParseItems(_, _, _)
ParseValue(text, i) ==
  CASE TokenAt(text, i) = "string" -> Parsed(text[i].v, i + 1)
    [] TokenAt(text, i) = "{" ->
         IF TokenAt(text, i + 1) = "}" THEN Parsed(<<>>, i + 2)
         ELSE ParseMembers(text, i + 1, <<>>)
    [] TokenAt(text, i) = "[" ->
         IF TokenAt(text, i + 1) = "]" THEN Parsed(<<>>, i + 2)
         ELSE ParseItems(text, i + 1, <<>>)
    [] OTHER -> SyntaxError
ParseMembers(text, i, object) ==
  IF TokenAt(text, i) = "string" /\ TokenAt(text, i + 1) = ":"
    THEN LET member == ParseValue(text, i + 2)
             extended == (text[i].v :> member.value) @@ object
         IN CASE ~member.ok -> SyntaxError
              [] TokenAt(text, member.next) = "," ->
                   ParseMembers(text, member.next + 1, extended)
              [] TokenAt(text, member.next) = "}" -> Parsed(extended, member.next + 1)
              [] OTHER -> SyntaxError
    ELSE SyntaxError
ParseItems(text, i, array) ==
  LET item == ParseValue(text, i)
  IN CASE ~item.ok -> SyntaxError
       [] TokenAt(text, item.next) = "," ->
            ParseItems(text, item.next + 1, Append(array, item.value))
       [] TokenAt(text, item.next) = "]" ->
            Parsed(Append(array, item.value), item.next + 1)
       [] OTHER -> SyntaxError
JSONparse(text) ==
  LET whole == ParseValue(text, 1)
  IN IF whole.ok /\ whole.next = Len(text) + 1 THEN whole ELSE SyntaxError

\* What the backend keeps under STORAGE_KEY: nothing (getItem returns null) or
\* a text.
Null == [present |-> FALSE, text |-> <<>>]
Item(text) == [present |-> TRUE, text |-> text]

\* storage.get, line 54: localStorage.getItem returns the value or throws
\* (storage disabled); the exception surfaces inside loadLibrary's try.
GetItemOutcomes == {"ok", "SecurityError"}
getItem(outcome) == [threw |-> outcome # "ok", value |-> stored]

\* loadLibrary, lines 121-128:
\*   try { result?.value ? JSON.parse(result.value) : empty } catch { empty }
\* null and the empty text are falsy.
loadLibrary(result) ==
  CASE result.threw -> EmptyLibrary
    [] ~result.value.present \/ result.value.text = <<>> -> EmptyLibrary
    [] ~JSONparse(result.value.text).ok -> EmptyLibrary
    [] OTHER -> JSONparse(result.value.text).value

\* Whether a value has the three lists.  The handlers read library.notes,
\* library.drafts and library.sources (lines 218, 270, 276, 314) and the
\* library view reads all three (lines 692-727); on a value without them the
\* read is undefined and its use throws a TypeError.
HasLists(value) == Categories \subseteq DOMAIN value
LibraryList(category) == IF category \in DOMAIN library THEN library[category] ELSE <<>>

\* A draft saved by an earlier session.
OldDraft ==
  [id |-> "id0", title |-> "Untitled draft", content |-> Text("k", 5),
   outline |-> Text("p", 2), analysis |-> Text("b", 2), format |-> "blog"]

InitialStores ==
  {Null, Item(Serialize([EmptyLibrary EXCEPT !.drafts = <<OldDraft>>]))}

\* Texts under the key that this program did not write: a text cut short,
\* which JSON.parse rejects, and the text {} , which it accepts.
Truncated == <<Punct("{"), Str("sources"), Punct(":"), Punct("[")>>
EmptyObject == <<Punct("{"), Punct("}")>>
ForeignStores == {Item(Truncated), Item(EmptyObject)}

-----------------------------------------------------------------------------
(* Tasks: async handlers suspended at their network call *)

IdleTask ==
  [kind |-> "idle", pc |-> 0, stage0 |-> 0, draft0 |-> "", url |-> "",
   angleStr |-> "", formatNote |-> "", analysis |-> "", outlineResult |-> "",
   system |-> "", userMessage |-> "", apiMessages |-> <<>>, issued |-> <<>>]

NoEvent == [op |-> "none", task |-> IdleTask, response |-> "", args |-> <<>>]
Event(op, task, response) ==
  [op |-> op, task |-> task, response |-> response, args |-> <<>>]
\* A step of a library handler: its arguments (for saveSourcesAll the number
\* of records it found to be new and the step it followed) and what
\* storage.set did.
LibEvent(op, args, setItem) ==
  [op |-> op, task |-> IdleTask, response |-> setItem, args |-> args]

NoTasks == EmptyBag
One(task) == SetToBag({task})
InFlight == BagToSet(tasks)

\* uid(), line 5: a random token.  It is the id of no record of the working
\* set or the library, of no record written to storage (an "id" member of
\* the stored text) and of no record deleted earlier.
StoredIds ==
  {stored.text[i + 2].v :
     i \in {j \in 1..(Len(stored.text) - 2) :
              stored.text[j] = Str("id") /\ stored.text[j + 1] = Punct(":")}}
UsedIds ==
  {sources[i].id : i \in 1..Len(sources)}
    \cup UNION {{LibraryList(c)[i].id : i \in 1..Len(LibraryList(c))} : c \in Categories}
    \cup StoredIds
    \cup {d[2] : d \in deleted}
IdToken(n) == "id" \o ToString(n)
FreeIds ==
  LET used == UsedIds
  IN {n \in 1..(Cardinality(used) + 1) : IdToken(n) \notin used}
uid == LET free == FreeIds IN IdToken(CHOOSE n \in free : \A m \in free : n <= m)

-----------------------------------------------------------------------------
(* Initial state: the component after mount, with the load-on-mount effect *)
(* (lines 177-182) settled: storage.get reads localStorage synchronously   *)
(* and its promise chain runs in the microtasks of the effect.             *)

Init ==
  /\ stored \in InitialStores
  /\ library = loadLibrary(getItem("ok"))
  /\ sources = <<>>
  /\ fetchingUrl = FALSE
  /\ pipelineStage = 0
  /\ researchAnalysis = ""
  /\ outline = ""
  /\ draft = ""
  /\ chatMessages = <<>>
  /\ chatLoading = FALSE
  /\ error = ""
  /\ tasks = NoTasks
  /\ ops = 0
  /\ deleted = {}
  /\ ev = NoEvent

\* The page is loaded again: the component mounts with the initial values of
\* its useState hooks (lines 141-174), the handlers suspended in the old page
\* are gone, and the load-on-mount effect (lines 177-182) sets the library.
mount(outcome) ==
  /\ library' = loadLibrary(getItem(outcome))
  /\ sources' = <<>>
  /\ fetchingUrl' = FALSE
  /\ pipelineStage' = 0
  /\ researchAnalysis' = ""
  /\ outline' = ""
  /\ draft' = ""
  /\ chatMessages' = <<>>
  /\ chatLoading' = FALSE
  /\ error' = ""
  /\ tasks' = NoTasks
  /\ ev' = Event("mount", IdleTask, outcome)
  /\ UNCHANGED stored

-----------------------------------------------------------------------------
(* Source ingestion *)

\* addText, lines 205-211
addText(title, content) ==
  /\ IF Trim(content) = ""
       THEN UNCHANGED sources
       ELSE /\ sources' = Append(sources,
                 [id |-> uid, type |-> "text",
                  title |-> OrElse(title, "Untitled paste"), content |-> content])
  /\ ev' = NoEvent
  /\ UNCHANGED <<fetchingUrl, pipelineStage, researchAnalysis, outline, draft,
                 chatMessages, chatLoading, library, error, stored, tasks>>

\* Mutant of removeSource: the record is taken out of the library too.
removeSource_Cascades(id) ==
  /\ sources' = SelectSeq(sources, LAMBDA s : s.id # id)
  /\ library' = [c \in DOMAIN library |-> SelectSeq(library[c], LAMBDA r : r.id # id)]
  /\ ev' = LibEvent("removeSource", <<id>>, "")
  /\ UNCHANGED <<fetchingUrl, pipelineStage, researchAnalysis, outline, draft,
                 chatMessages, chatLoading, error, stored, tasks>>

\* removeSource, line 225
removeSource(id) ==
  /\ sources' = SelectSeq(sources, LAMBDA s : s.id # id)
  /\ ev' = LibEvent("removeSource", <<id>>, "")
  /\ UNCHANGED <<fetchingUrl, pipelineStage, researchAnalysis, outline, draft,
                 chatMessages, chatLoading, library, error, stored, tasks>>

\* addUrl up to its await, lines 190-195.  The Fetch button is disabled while
\* fetchingUrl, the Enter key of the input (line 539) is not.
addUrl(urlInput) ==
  /\ ev' = NoEvent
  /\ IF Trim(urlInput) = ""
       THEN UNCHANGED <<fetchingUrl, error, tasks>>
       ELSE /\ fetchingUrl' = TRUE
            /\ error' = ""
            /\ tasks' = tasks (+) One(
                 [IdleTask EXCEPT !.kind = "url", !.pc = 1, !.url = Trim(urlInput),
                    !.system = WEB_FETCH,
                    !.userMessage = "Please fetch and summarize the content at: "
                                      \o Trim(urlInput),
                    !.issued = <<WEB_FETCH>>])
  /\ UNCHANGED <<sources, pipelineStage, researchAnalysis, outline, draft,
                 chatMessages, chatLoading, library, stored>>

\* addUrl after fetchUrlContent resolved, lines 196-198 and 202
addUrlResolved(t, content) ==
  /\ t.kind = "url"
  /\ sources' = Append(sources,
       [id |-> uid, type |-> "url", title |-> t.url, content |-> content])
  /\ fetchingUrl' = FALSE
  /\ tasks' = tasks (-) One(t)
  /\ ev' = Event("addUrl.done", t, content)
  /\ UNCHANGED <<pipelineStage, researchAnalysis, outline, draft, chatMessages,
                 chatLoading, library, error, stored>>

\* addUrl after fetchUrlContent threw, lines 199-202
\* Mutant of addUrlFailed: the fetch-in-progress flag stays set.
addUrlFailed_KeepsFetching(t, status) ==
  /\ t.kind = "url"
  /\ error' = "URL fetch failed: " \o FetchFailed(status)
  /\ tasks' = tasks (-) One(t)
  /\ ev' = Event("addUrl.failed", t, FetchFailed(status))
  /\ UNCHANGED <<sources, fetchingUrl, pipelineStage, researchAnalysis, outline,
                 draft, chatMessages, chatLoading, library, stored>>

addUrlFailed(t, status) ==
  /\ t.kind = "url"
  /\ error' = "URL fetch failed: " \o FetchFailed(status)
  /\ fetchingUrl' = FALSE
  /\ tasks' = tasks (-) One(t)
  /\ ev' = Event("addUrl.failed", t, FetchFailed(status))
  /\ UNCHANGED <<sources, pipelineStage, researchAnalysis, outline, draft,
                 chatMessages, chatLoading, library, stored>>

-----------------------------------------------------------------------------
(* Pipeline orchestrator *)

\* sources.map((s, i) => `--- SOURCE ${i + 1}: ${s.title} ---\n${s.content}`).join("\n\n"),
\* line 242
RECURSIVE JoinSources(_, _)
JoinSources(srcs, i) ==
  IF i > Len(srcs) THEN ""
  ELSE (IF i = 1 THEN "" ELSE "\n\n")
         \o "--- SOURCE " \o ToString(i) \o ": " \o srcs[i].title \o " ---\n"
         \o srcs[i].content
         \o JoinSources(srcs, i + 1)

allContent == JoinSources(sources, 1)

\* line 243
AngleStr(topicAngle) == IF topicAngle = "" THEN "" ELSE "\n\nTOPIC/ANGLE: " \o topicAngle
\* line 252
FormatNote(selectedFormat) == "Output format requested: " \o selectedFormat
\* line 253
OutlineMessage(task, analysis) ==
  "RESEARCH ANALYSIS:\n" \o analysis \o "\n\n" \o task.formatNote \o task.angleStr
\* line 258
WritingMessage(task, outlineResult) ==
  "RESEARCH ANALYSIS:\n" \o task.analysis \o "\n\nOUTLINE:\n" \o outlineResult
    \o "\n\n" \o task.formatNote \o task.angleStr

\* Mutant of runPipelineRejected: the refusal also resets the stage marker.
runPipelineRejected_ResetsStage ==
  /\ Len(sources) = 0
  /\ error' = "Add at least one source first."
  /\ pipelineStage' = 0
  /\ ev' = Event("runPipeline.rejected", IdleTask, "")
  /\ UNCHANGED <<sources, fetchingUrl, researchAnalysis, outline, draft,
                 chatMessages, chatLoading, library, stored, tasks>>

\* runPipeline with no source, line 234
runPipelineRejected ==
  /\ Len(sources) = 0
  /\ error' = "Add at least one source first."
  /\ ev' = Event("runPipeline.rejected", IdleTask, "")
  /\ UNCHANGED <<sources, fetchingUrl, pipelineStage, researchAnalysis, outline,
                 draft, chatMessages, chatLoading, library, stored, tasks>>

\* runPipeline up to its first await, lines 234-247.  The closure keeps the
\* pipelineStage, topicAngle and selectedFormat of the render it was started in.
runPipelineStart(topicAngle, selectedFormat) ==
  /\ Len(sources) # 0
  /\ error' = ""
  /\ pipelineStage' = 1
  /\ researchAnalysis' = ""
  /\ outline' = ""
  /\ draft' = ""
  /\ LET run == [IdleTask EXCEPT !.kind = "pipeline", !.pc = 1,
                     !.stage0 = pipelineStage,
                     !.angleStr = AngleStr(topicAngle),
                     !.formatNote = FormatNote(selectedFormat),
                     !.system = RESEARCH_AGENT,
                     !.userMessage = allContent \o AngleStr(topicAngle),
                     !.issued = <<RESEARCH_AGENT>>]
     IN tasks' = tasks (+) One(run)
  /\ ev' = NoEvent
  /\ UNCHANGED <<sources, fetchingUrl, chatMessages, chatLoading, library, stored>>

runPipeline(topicAngle, selectedFormat) ==
  \/ runPipelineRejected
  \/ runPipelineStart(topicAngle, selectedFormat)

\* Research call resolved, lines 247-253
researchResolved(t, analysis) ==
  /\ t.kind = "pipeline" /\ t.pc = 1
  /\ researchAnalysis' = analysis
  /\ pipelineStage' = 2
  /\ tasks' = (tasks (-) One(t)) (+) One(
       [t EXCEPT !.pc = 2, !.analysis = analysis, !.system = OUTLINE_AGENT,
          !.userMessage = OutlineMessage(t, analysis),
          !.issued = Append(@, OUTLINE_AGENT)])
  /\ ev' = NoEvent
  /\ UNCHANGED <<sources, fetchingUrl, outline, draft, chatMessages, chatLoading,
                 library, error, stored>>

\* Outline call resolved, lines 253-258
outlineResolved(t, outlineResult) ==
  /\ t.kind = "pipeline" /\ t.pc = 2
  /\ outline' = outlineResult
  /\ pipelineStage' = 3
  /\ tasks' = (tasks (-) One(t)) (+) One(
       [t EXCEPT !.pc = 3, !.outlineResult = outlineResult, !.system = WRITING_AGENT,
          !.userMessage = WritingMessage(t, outlineResult),
          !.issued = Append(@, WRITING_AGENT)])
  /\ ev' = NoEvent
  /\ UNCHANGED <<sources, fetchingUrl, researchAnalysis, draft, chatMessages,
                 chatLoading, library, error, stored>>

\* Writing call resolved, lines 258-260
writingResolved(t, draftResult) ==
  /\ t.kind = "pipeline" /\ t.pc = 3
  /\ draft' = draftResult
  /\ pipelineStage' = 4
  /\ tasks' = tasks (-) One(t)
  /\ ev' = Event("runPipeline.done", t, draftResult)
  /\ UNCHANGED <<sources, fetchingUrl, researchAnalysis, outline, chatMessages,
                 chatLoading, library, error, stored>>

\* Mutant of pipelineFailed: a failed call is issued once more before giving up.
pipelineFailed_Retries(t, status) ==
  /\ t.kind = "pipeline"
  /\ IF Len(t.issued) = t.pc
       THEN /\ tasks' = (tasks (-) One(t)) (+) One([t EXCEPT !.issued = Append(@, t.system)])
            /\ ev' = NoEvent
            /\ UNCHANGED <<error, pipelineStage>>
       ELSE /\ error' = "Pipeline failed at stage " \o ToString(t.stage0) \o ": "
                          \o ApiError(status)
            /\ pipelineStage' = 0
            /\ tasks' = tasks (-) One(t)
            /\ ev' = Event("runPipeline.failed", t, ApiError(status))
  /\ UNCHANGED <<sources, fetchingUrl, researchAnalysis, outline, draft,
                 chatMessages, chatLoading, library, stored>>

\* catch of runPipeline, lines 261-264: pipelineStage is the closure's value
pipelineFailed(t, status) ==
  /\ t.kind = "pipeline"
  /\ error' = "Pipeline failed at stage " \o ToString(t.stage0) \o ": "
                \o ApiError(status)
  /\ pipelineStage' = 0
  /\ tasks' = tasks (-) One(t)
  /\ ev' = Event("runPipeline.failed", t, ApiError(status))
  /\ UNCHANGED <<sources, fetchingUrl, researchAnalysis, outline, draft,
                 chatMessages, chatLoading, library, stored>>

-----------------------------------------------------------------------------
(* Library: saving and reopening drafts *)

\* What localStorage.setItem does in storage.set (line 55): it stores the text
\* or throws (quota exceeded, storage disabled).
SetItemOutcomes == {"ok", "QuotaExceededError"}

\* Mutant of saveLibrary: a failed write removes the stored text.
saveLibrary_ClearsOnFailure(lib, setItem) ==
  IF setItem = "ok" THEN stored' = Item(Serialize(lib)) ELSE stored' = Null

\* saveLibrary, lines 130-136: the exception of storage.set is only logged.
saveLibrary(lib, setItem) ==
  IF setItem = "ok" THEN stored' = Item(Serialize(lib)) ELSE UNCHANGED stored

\* saveDraft, lines 267-273.  Its buttons are rendered only while draft is
\* non-empty (lines 618, 645).
saveDraft(topicAngle, selectedFormat) ==
  /\ draft # ""
  /\ LET d == [id |-> uid, title |-> OrElse(topicAngle, "Untitled draft"),
               content |-> draft, outline |-> outline,
               analysis |-> researchAnalysis, format |-> selectedFormat]
         newLib == [library EXCEPT !.drafts = Append(@, d)]
     IN IF ~HasLists(library)
          THEN /\ ev' = LibEvent("saveDraft", <<d.id>>, "TypeError")
               /\ UNCHANGED <<library, stored>>
          ELSE \E setItem \in SetItemOutcomes :
                 /\ library' = newLib
                 /\ saveLibrary(newLib, setItem)
                 /\ ev' = LibEvent("saveDraft", <<d.id>>, setItem)
  /\ UNCHANGED <<sources, fetchingUrl, pipelineStage, researchAnalysis, outline,
                 draft, chatMessages, chatLoading, error, tasks>>

\* The library view renders its cards from the three lists, lines 692-727.
LibraryViewRendered == HasLists(library)

\* onClick of a library draft card, line 695
openDraft(i) ==
  /\ LibraryViewRendered
  /\ i \in 1..Len(library.drafts)
  /\ LET d == library.drafts[i]
     IN /\ draft' = d.content
        /\ outline' = OrElse(d.outline, "")
        /\ researchAnalysis' = OrElse(d.analysis, "")
  /\ pipelineStage' = 4
  /\ ev' = NoEvent
  /\ UNCHANGED <<sources, fetchingUrl, chatMessages, chatLoading, library, error,
                 stored, tasks>>

-----------------------------------------------------------------------------
(* Library: notes, saved sources, deletion *)

\* Mutant of addNote: the note goes to the library only.
addNote_LibraryOnly(noteTitle, noteInput) ==
  /\ IF Trim(noteInput) = ""
       THEN /\ ev' = NoEvent
            /\ UNCHANGED <<sources, library, stored>>
       ELSE LET note == [id |-> uid, type |-> "note",
                         title |-> OrElse(noteTitle, "Note"), content |-> noteInput]
                newLib == [library EXCEPT !.notes = Append(@, note)]
            IN /\ UNCHANGED sources
               /\ \E setItem \in SetItemOutcomes :
                    /\ library' = newLib
                    /\ saveLibrary(newLib, setItem)
                    /\ ev' = LibEvent("addNote", <<note.id>>, setItem)
  /\ UNCHANGED <<fetchingUrl, pipelineStage, researchAnalysis, outline, draft,
                 chatMessages, chatLoading, error, tasks>>

\* addNote, lines 213-223
addNote(noteTitle, noteInput) ==
  /\ IF Trim(noteInput) = ""
       THEN /\ ev' = NoEvent
            /\ UNCHANGED <<sources, library, stored>>
       ELSE LET note == [id |-> uid, type |-> "note",
                         title |-> OrElse(noteTitle, "Note"), content |-> noteInput]
                newLib == [library EXCEPT !.notes = Append(@, note)]
            IN /\ sources' = Append(sources, note)
               /\ IF ~HasLists(library)
                    THEN /\ ev' = LibEvent("addNote", <<note.id>>, "TypeError")
                         /\ UNCHANGED <<library, stored>>
                    ELSE \E setItem \in SetItemOutcomes :
                           /\ library' = newLib
                           /\ saveLibrary(newLib, setItem)
                           /\ ev' = LibEvent("addNote", <<note.id>>, setItem)
  /\ UNCHANGED <<fetchingUrl, pipelineStage, researchAnalysis, outline, draft,
                 chatMessages, chatLoading, error, tasks>>

Ids(list) == {list[i].id : i \in 1..Len(list)}
Records(list) == {list[i] : i \in 1..Len(list)}

\* The cards of the library view that call loadFromLibrary, lines 711 and 728
LibraryCards ==
  IF LibraryViewRendered
    THEN Records(library.sources) \cup Records(library.notes) ELSE {}

\* Mutant of loadFromLibrary: the item is appended without the lookup.
loadFromLibrary_NoCheck(item) ==
  /\ item \in LibraryCards
  /\ sources' = Append(sources, item)
  /\ ev' = LibEvent("loadFromLibrary", <<item.id>>,
                    IF item.id \in Ids(sources) THEN "found" ELSE "")
  /\ UNCHANGED <<fetchingUrl, pipelineStage, researchAnalysis, outline, draft,
                 chatMessages, chatLoading, library, error, stored, tasks>>

\* loadFromLibrary, lines 227-231.  The event tells whether sources.find
\* found the id.
loadFromLibrary(item) ==
  /\ item \in LibraryCards
  /\ sources' = IF item.id \in Ids(sources) THEN sources ELSE Append(sources, item)
  /\ ev' = LibEvent("loadFromLibrary", <<item.id>>,
                    IF item.id \in Ids(sources) THEN "found" ELSE "")
  /\ UNCHANGED <<fetchingUrl, pipelineStage, researchAnalysis, outline, draft,
                 chatMessages, chatLoading, library, error, stored, tasks>>

\* Mutant of saveSourcesAll: every source of the working set is appended.
saveSourcesAll_NoFilter ==
  /\ Len(sources) > 0
  /\ HasLists(library)
  /\ LET newSources == sources
         newLib == [library EXCEPT !.sources = @ \o newSources]
     IN IF Len(newSources) = 0
          THEN /\ ev' = LibEvent("saveSourcesAll", <<0, ev.op>>, "")
               /\ UNCHANGED <<library, stored>>
          ELSE \E setItem \in SetItemOutcomes :
                 /\ library' = newLib
                 /\ saveLibrary(newLib, setItem)
                 /\ ev' = LibEvent("saveSourcesAll", <<Len(newSources), ev.op>>, setItem)
  /\ UNCHANGED <<sources, fetchingUrl, pipelineStage, researchAnalysis, outline,
                 draft, chatMessages, chatLoading, error, tasks>>

\* Mutant of saveSourcesAll: no early return, the library is written again
\* when nothing is new.
saveSourcesAll_Resaves ==
  /\ Len(sources) > 0
  /\ HasLists(library)
  /\ LET newSources == SelectSeq(sources, LAMBDA s : s.id \notin Ids(library.sources))
         newLib == [library EXCEPT !.sources = @ \o newSources]
     IN \E setItem \in SetItemOutcomes :
          /\ library' = newLib
          /\ saveLibrary(newLib, setItem)
          /\ ev' = LibEvent("saveSourcesAll", <<Len(newSources), ev.op>>, setItem)
  /\ UNCHANGED <<sources, fetchingUrl, pipelineStage, researchAnalysis, outline,
                 draft, chatMessages, chatLoading, error, tasks>>

\* Mutant of saveSourcesAll: the new records are put in front of the list.
saveSourcesAll_Prepends ==
  /\ Len(sources) > 0
  /\ HasLists(library)
  /\ LET newSources == SelectSeq(sources, LAMBDA s : s.id \notin Ids(library.sources))
         newLib == [library EXCEPT !.sources = newSources \o @]
     IN IF Len(newSources) = 0
          THEN /\ ev' = LibEvent("saveSourcesAll", <<0, ev.op>>, "")
               /\ UNCHANGED <<library, stored>>
          ELSE \E setItem \in SetItemOutcomes :
                 /\ library' = newLib
                 /\ saveLibrary(newLib, setItem)
                 /\ ev' = LibEvent("saveSourcesAll", <<Len(newSources), ev.op>>, setItem)
  /\ UNCHANGED <<sources, fetchingUrl, pipelineStage, researchAnalysis, outline,
                 draft, chatMessages, chatLoading, error, tasks>>

\* saveSourcesAll, lines 275-281.  Its button is rendered only while the
\* working set is non-empty (line 515).
saveSourcesAll ==
  /\ Len(sources) > 0
  /\ IF ~HasLists(library)
       THEN /\ ev' = LibEvent("saveSourcesAll", <<0, ev.op>>, "TypeError")
            /\ UNCHANGED <<library, stored>>
       ELSE LET newSources ==
                  SelectSeq(sources, LAMBDA s : s.id \notin Ids(library.sources))
                newLib == [library EXCEPT !.sources = @ \o newSources]
            IN IF Len(newSources) = 0
                 THEN /\ ev' = LibEvent("saveSourcesAll", <<0, ev.op>>, "")
                      /\ UNCHANGED <<library, stored>>
                 ELSE \E setItem \in SetItemOutcomes :
                        /\ library' = newLib
                        /\ saveLibrary(newLib, setItem)
                        /\ ev' = LibEvent("saveSourcesAll",
                                          <<Len(newSources), ev.op>>, setItem)
  /\ UNCHANGED <<sources, fetchingUrl, pipelineStage, researchAnalysis, outline,
                 draft, chatMessages, chatLoading, error, tasks>>

\* Mutant of deleteLibItem: the id is removed from every list.
deleteLibItem_EveryList(category, id) ==
  /\ LibraryViewRendered
  /\ category \in Categories /\ id \in Ids(library[category])
  /\ LET newLib == [c \in Categories |-> SelectSeq(library[c], LAMBDA i : i.id # id)]
     IN \E setItem \in SetItemOutcomes :
          /\ library' = newLib
          /\ saveLibrary(newLib, setItem)
          /\ ev' = LibEvent("deleteLibItem", <<category, id>>, setItem)
  /\ UNCHANGED <<sources, fetchingUrl, pipelineStage, researchAnalysis, outline,
                 draft, chatMessages, chatLoading, error, tasks>>

\* deleteLibItem, lines 313-317; called by the x button of a card of the
\* category (lines 696, 712, 729).
deleteLibItem(category, id) ==
  /\ LibraryViewRendered
  /\ category \in Categories /\ id \in Ids(library[category])
  /\ LET newLib == [library EXCEPT
                      ![category] = SelectSeq(@, LAMBDA i : i.id # id)]
     IN \E setItem \in SetItemOutcomes :
          /\ library' = newLib
          /\ saveLibrary(newLib, setItem)
          /\ ev' = LibEvent("deleteLibItem", <<category, id>>, setItem)
  /\ UNCHANGED <<sources, fetchingUrl, pipelineStage, researchAnalysis, outline,
                 draft, chatMessages, chatLoading, error, tasks>>

-----------------------------------------------------------------------------
(* Refinement session *)

Turn(role, content) == [role |-> role, content |-> content]

Opening ==
  Turn("assistant", "I have your draft ready. What would you like to change?")

\* lines 299-300
Preamble(d) ==
  << Turn("user", "Here is the current draft:\n\n" \o d
                    \o "\n\n---\nThe user will now ask for edits."),
     Turn("assistant", "I have the draft. What changes would you like?") >>

\* startRefine, lines 283-287
startRefine ==
  /\ draft # ""
  /\ chatMessages' = <<Opening>>
  /\ ev' = NoEvent
  /\ UNCHANGED <<sources, fetchingUrl, pipelineStage, researchAnalysis, outline,
                 draft, chatLoading, library, error, stored, tasks>>

\* The chat input and its Send button exist only while draft is non-empty, line 645
ChatRendered == draft # ""

\* sendChat returning at its guard, line 290
sendChatRejected(chatInput) ==
  /\ Trim(chatInput) = "" \/ chatLoading
  /\ ev' = Event("sendChat.rejected", IdleTask, "")
  /\ UNCHANGED <<sources, fetchingUrl, pipelineStage, researchAnalysis, outline,
                 draft, chatMessages, chatLoading, library, error, stored, tasks>>

\* Mutant of sendChatAccepted: the guard does not look at chatLoading.
sendChatAccepted_IgnoresLoading(chatInput) ==
  /\ Trim(chatInput) # ""
  /\ LET userMsg == Trim(chatInput)
         newMessages == Append(chatMessages, Turn("user", userMsg))
         apiMessages == Preamble(draft) \o newMessages
         call == [IdleTask EXCEPT !.kind = "chat", !.pc = 1, !.draft0 = draft,
                    !.system = CHAT_REFINE, !.userMessage = userMsg,
                    !.apiMessages = apiMessages, !.issued = <<CHAT_REFINE>>]
     IN /\ chatMessages' = newMessages
        /\ tasks' = tasks (+) One(call)
        /\ ev' = Event("sendChat.sent", call, "")
  /\ chatLoading' = TRUE
  /\ UNCHANGED <<sources, fetchingUrl, pipelineStage, researchAnalysis, outline,
                 draft, library, error, stored>>

\* Mutant of sendChatAccepted: the conversation is built from the transcript of
\* the last render (chatMessages), which lacks the new request.
sendChatAccepted_StaleTranscript(chatInput) ==
  /\ ~(Trim(chatInput) = "" \/ chatLoading)
  /\ LET userMsg == Trim(chatInput)
         newMessages == Append(chatMessages, Turn("user", userMsg))
         apiMessages == Preamble(draft) \o chatMessages
         call == [IdleTask EXCEPT !.kind = "chat", !.pc = 1, !.draft0 = draft,
                    !.system = CHAT_REFINE, !.userMessage = userMsg,
                    !.apiMessages = apiMessages, !.issued = <<CHAT_REFINE>>]
     IN /\ chatMessages' = newMessages
        /\ tasks' = tasks (+) One(call)
        /\ ev' = Event("sendChat.sent", call, "")
  /\ chatLoading' = TRUE
  /\ UNCHANGED <<sources, fetchingUrl, pipelineStage, researchAnalysis, outline,
                 draft, library, error, stored>>

\* sendChat up to its await, lines 290-303
sendChatAccepted(chatInput) ==
  /\ ~(Trim(chatInput) = "" \/ chatLoading)
  /\ LET userMsg == Trim(chatInput)
         newMessages == Append(chatMessages, Turn("user", userMsg))
         apiMessages == Preamble(draft) \o newMessages
         call == [IdleTask EXCEPT !.kind = "chat", !.pc = 1, !.draft0 = draft,
                    !.system = CHAT_REFINE, !.userMessage = userMsg,
                    !.apiMessages = apiMessages, !.issued = <<CHAT_REFINE>>]
     IN /\ chatMessages' = newMessages
        /\ tasks' = tasks (+) One(call)
        /\ ev' = Event("sendChat.sent", call, "")
  /\ chatLoading' = TRUE
  /\ UNCHANGED <<sources, fetchingUrl, pipelineStage, researchAnalysis, outline,
                 draft, library, error, stored>>

sendChat(chatInput) ==
  /\ ChatRendered
  /\ \/ sendChatRejected(chatInput)
     \/ sendChatAccepted(chatInput)

\* response.length > draft.length * 0.5 (line 306), with the closure's draft;
\* over the integers r > d / 2 is 2 * r > d.
LooksLikeRevision(response, closureDraft) == 2 * Len(response) > Len(closureDraft)

\* Mutant of chatResolved: a replaced draft is also written into the saved
\* drafts that held it.
chatResolved_RewritesSavedDrafts(t, response) ==
  /\ t.kind = "chat"
  /\ chatMessages' = Append(chatMessages, Turn("assistant", response))
  /\ draft' = IF LooksLikeRevision(response, t.draft0) THEN response ELSE draft
  /\ library' =
       IF LooksLikeRevision(response, t.draft0) /\ HasLists(library)
         THEN [library EXCEPT !.drafts =
                 [i \in 1..Len(@) |->
                    IF @[i].content = t.draft0 THEN [@[i] EXCEPT !.content = response]
                    ELSE @[i]]]
         ELSE library
  /\ chatLoading' = FALSE
  /\ tasks' = tasks (-) One(t)
  /\ ev' = Event("sendChat.done", t, response)
  /\ UNCHANGED <<sources, fetchingUrl, pipelineStage, researchAnalysis, outline,
                 error, stored>>

\* Mutant of chatResolved: every response replaces the draft.
chatResolved_AlwaysReplaces(t, response) ==
  /\ t.kind = "chat"
  /\ chatMessages' = Append(chatMessages, Turn("assistant", response))
  /\ draft' = response
  /\ chatLoading' = FALSE
  /\ tasks' = tasks (-) One(t)
  /\ ev' = Event("sendChat.done", t, response)
  /\ UNCHANGED <<sources, fetchingUrl, pipelineStage, researchAnalysis, outline,
                 library, error, stored>>

\* sendChat after callAgentChat resolved, lines 304-306 and 310
chatResolved(t, response) ==
  /\ t.kind = "chat"
  /\ chatMessages' = Append(chatMessages, Turn("assistant", response))
  /\ draft' = IF LooksLikeRevision(response, t.draft0) THEN response ELSE draft
  /\ chatLoading' = FALSE
  /\ tasks' = tasks (-) One(t)
  /\ ev' = Event("sendChat.done", t, response)
  /\ UNCHANGED <<sources, fetchingUrl, pipelineStage, researchAnalysis, outline,
                 library, error, stored>>

\* Mutant of chatFailed: the error turn takes the place of the failed request.
chatFailed_ReplacesRequest(t, status) ==
  /\ t.kind = "chat"
  /\ chatMessages' = Append(SubSeq(chatMessages, 1, Len(chatMessages) - 1),
                            Turn("assistant", "Error: " \o ApiError(status)))
  /\ chatLoading' = FALSE
  /\ tasks' = tasks (-) One(t)
  /\ ev' = Event("sendChat.failed", t, ApiError(status))
  /\ UNCHANGED <<sources, fetchingUrl, pipelineStage, researchAnalysis, outline,
                 draft, library, error, stored>>

\* Mutant of chatFailed: the in-flight flag is not cleared on failure.
chatFailed_KeepsLoading(t, status) ==
  /\ t.kind = "chat"
  /\ chatMessages' = Append(chatMessages, Turn("assistant", "Error: " \o ApiError(status)))
  /\ tasks' = tasks (-) One(t)
  /\ ev' = Event("sendChat.failed", t, ApiError(status))
  /\ UNCHANGED <<sources, fetchingUrl, pipelineStage, researchAnalysis, outline,
                 draft, chatLoading, library, error, stored>>

\* sendChat after callAgentChat threw, lines 307-310
chatFailed(t, status) ==
  /\ t.kind = "chat"
  /\ chatMessages' = Append(chatMessages, Turn("assistant", "Error: " \o ApiError(status)))
  /\ chatLoading' = FALSE
  /\ tasks' = tasks (-) One(t)
  /\ ev' = Event("sendChat.failed", t, ApiError(status))
  /\ UNCHANGED <<sources, fetchingUrl, pipelineStage, researchAnalysis, outline,
                 draft, library, error, stored>>

-----------------------------------------------------------------------------
(* Specification *)

\* A handler invoked by the user, and the continuation of a suspended handler.
\* Both keep the history of deletions: a deleteLibItem(category, id) call
\* (lines 313-317) is recorded, whatever storage.set did with it.
Deletions(e) == IF e.op = "deleteLibItem" THEN {<<e.args[1], e.args[2]>>} ELSE {}
User(A) == ops < MaxOps /\ ops' = ops + 1 /\ A /\ deleted' = deleted \cup Deletions(ev')
Resume(A) == UNCHANGED <<ops, deleted>> /\ A

Next ==
  \/ \E title \in {""}, content \in TextInputs : User(addText(title, content))
  \/ \E i \in 1..Len(sources) : User(removeSource(sources[i].id))
  \/ \E u \in UrlInputs : User(addUrl(u))
  \/ \E t \in InFlight, c \in UrlTexts : Resume(addUrlResolved(t, c))
  \/ \E t \in InFlight, s \in Statuses : Resume(addUrlFailed(t, s))
  \/ \E a \in Angles, f \in Formats : User(runPipeline(a, f))
  \/ \E t \in InFlight, r \in ResearchTexts : Resume(researchResolved(t, r))
  \/ \E t \in InFlight, r \in OutlineTexts : Resume(outlineResolved(t, r))
  \/ \E t \in InFlight, r \in WritingTexts : Resume(writingResolved(t, r))
  \/ \E t \in InFlight, s \in Statuses : Resume(pipelineFailed(t, s))
  \/ \E a \in Angles, f \in Formats : User(saveDraft(a, f))
  \/ \E i \in 1..Len(LibraryList("drafts")) : User(openDraft(i))
  \/ \E title \in {""}, content \in NoteInputs : User(addNote(title, content))
  \/ \E item \in LibraryCards : User(loadFromLibrary(item))
  \/ User(saveSourcesAll)
  \/ \E outcome \in GetItemOutcomes : User(mount(outcome))
  \/ \E category \in Categories :
       \E id \in Ids(LibraryList(category)) : User(deleteLibItem(category, id))
  \/ User(startRefine)
  \/ \E c \in ChatInputs : User(sendChat(c))
  \/ \E t \in InFlight, r \in ChatTexts : Resume(chatResolved(t, r))
  \/ \E t \in InFlight, s \in Statuses : Resume(chatFailed(t, s))

Spec == Init /\ [][Next]_vars

\* A network call in flight is answered: its handler resumes on the success
\* or on the failure path.
Settle ==
  \/ \E t \in InFlight, c \in UrlTexts : Resume(addUrlResolved(t, c))
  \/ \E t \in InFlight, s \in Statuses : Resume(addUrlFailed(t, s))
  \/ \E t \in InFlight, r \in ResearchTexts : Resume(researchResolved(t, r))
  \/ \E t \in InFlight, r \in OutlineTexts : Resume(outlineResolved(t, r))
  \/ \E t \in InFlight, r \in WritingTexts : Resume(writingResolved(t, r))
  \/ \E t \in InFlight, s \in Statuses : Resume(pipelineFailed(t, s))
  \/ \E t \in InFlight, r \in ChatTexts : Resume(chatResolved(t, r))
  \/ \E t \in InFlight, s \in Statuses : Resume(chatFailed(t, s))

\* The same system under the assumption that every issued call eventually
\* succeeds or fails (fetch settles its promise): no call stays in flight
\* forever.
SpecLive ==
  Init /\ [][Next /\ ops' <= MaxLiveOps]_vars /\ WF_vars(Settle)

\* The component mounted over any storage: empty, written by this program or
\* not, readable or not.
InitAnyStore ==
  /\ stored \in InitialStores \cup ForeignStores
  /\ \E outcome \in GetItemOutcomes :
       /\ library = loadLibrary(getItem(outcome))
       /\ ev = Event("mount", IdleTask, outcome)
  /\ sources = <<>>
  /\ fetchingUrl = FALSE
  /\ pipelineStage = 0
  /\ researchAnalysis = ""
  /\ outline = ""
  /\ draft = ""
  /\ chatMessages = <<>>
  /\ chatLoading = FALSE
  /\ error = ""
  /\ tasks = NoTasks
  /\ ops = 0
  /\ deleted = {}

SpecAnyStore == InitAnyStore /\ [][Next]_vars

\* The component mounted over a library that holds one draft of a single
\* character, saved by an earlier session.
ShortDraft == [OldDraft EXCEPT !.content = Text("k", 1)]
InitShortDraft ==
  /\ stored = Item(Serialize([EmptyLibrary EXCEPT !.drafts = <<ShortDraft>>]))
  /\ library = loadLibrary(getItem("ok"))
  /\ sources = <<>>
  /\ fetchingUrl = FALSE
  /\ pipelineStage = 0
  /\ researchAnalysis = ""
  /\ outline = ""
  /\ draft = ""
  /\ chatMessages = <<>>
  /\ chatLoading = FALSE
  /\ error = ""
  /\ tasks = NoTasks
  /\ ops = 0
  /\ deleted = {}
  /\ ev = NoEvent

SpecShortDraft == InitShortDraft /\ [][Next]_vars

TypeOK ==
  /\ pipelineStage \in 0..4
  /\ fetchingUrl \in BOOLEAN /\ chatLoading \in BOOLEAN
  /\ ops \in 0..MaxOps

-----------------------------------------------------------------------------
(* Properties of the pipeline orchestrator *)

PipelineRuns == {t \in InFlight : t.kind = "pipeline"}
AgentOrder == <<RESEARCH_AGENT, OUTLINE_AGENT, WRITING_AGENT>>

\* C1: a run whose three agent calls all succeeded with non-empty strings ends
\* with stage 4 and with researchAnalysis, outline and draft equal to the three
\* strings the agents returned.
C1_SuccessfulRunEndState ==
  (/\ ev.op = "runPipeline.done"
   /\ ev.task.analysis # "" /\ ev.task.outlineResult # "" /\ ev.response # "")
  => /\ pipelineStage = 4
     /\ researchAnalysis = ev.task.analysis
     /\ outline = ev.task.outlineResult
     /\ draft = ev.response

\* C2: a run whose stage-k call failed ends with stage 0 and an error recorded,
\* the artifacts of the stages before k as that run produced them, and the
\* artifacts of stage k and later empty.
C2_FailedRunEndState ==
  ev.op = "runPipeline.failed"
  => /\ pipelineStage = 0
     /\ error # ""
     /\ researchAnalysis = (IF ev.task.pc > 1 THEN ev.task.analysis ELSE "")
     /\ outline = (IF ev.task.pc > 2 THEN ev.task.outlineResult ELSE "")
     /\ draft = ""

C4_StageMonotoneDuringRun ==
  [][PipelineRuns # {}
       => \/ pipelineStage' = pipelineStage
          \/ pipelineStage' = pipelineStage + 1
          \/ (pipelineStage' = 0 /\ ev'.op = "runPipeline.failed")]_vars

\* C5: a run issues the Research, Outline and Writing calls in that order, each
\* once, the next only after the previous returned; a run that failed at stage k
\* issued exactly k calls, a successful run exactly 3.
C5_CallsIssuedInOrder ==
  /\ \A t \in PipelineRuns :
       /\ t.pc \in 1..3
       /\ t.issued = SubSeq(AgentOrder, 1, t.pc)
  /\ ev.op = "runPipeline.failed"
       => ev.task.issued = SubSeq(AgentOrder, 1, ev.task.pc)
  /\ ev.op = "runPipeline.done" => ev.task.issued = AgentOrder

C5_Witness ==
  ev.op = "runPipeline.failed" /\ Len(ev.task.issued) = 2

\* C6: at most one network call is in flight at a time.
C6_OneCallInFlight == BagCardinality(tasks) <= 1

-----------------------------------------------------------------------------
(* Properties of the refinement session *)

ChatCalls == {t \in InFlight : t.kind = "chat"}
ChatCallCount == IF ChatCalls = {} THEN 0
                 ELSE BagCardinality([t \in ChatCalls |-> tasks[t]])

\* C7: an arriving response replaces the draft iff it is longer than half the
\* draft that is current when it arrives; otherwise the draft is unchanged.
C7_ReplacedIffLongerThanHalfCurrent ==
  [][ev'.op = "sendChat.done"
       => draft' = IF 2 * Len(ev'.response) > Len(draft) THEN ev'.response
                   ELSE draft]_vars

\* C8: a failed refinement call appends exactly one assistant turn with the error
\* description, right after the user's request, leaves the draft unchanged and
\* clears the in-flight flag.
C8_FailureAppendsErrorAfterRequest ==
  [][ev'.op = "sendChat.failed"
       => /\ chatMessages' =
               Append(chatMessages, Turn("assistant", "Error: " \o ev'.response))
          /\ chatMessages # <<>>
          /\ chatMessages[Len(chatMessages)] = Turn("user", ev'.task.userMessage)
          /\ draft' = draft
          /\ chatLoading' = FALSE]_vars

\* C9: a send made while a refinement call is in flight changes neither the
\* transcript nor the calls in flight; an accepted send issues exactly one call;
\* at most one refinement call is in flight.
C9_OneRefinementCall ==
  [][/\ (ev'.op = "sendChat.rejected" /\ chatLoading)
          => (chatMessages' = chatMessages /\ tasks' = tasks)
     /\ ev'.op = "sendChat.sent"
          => /\ ~chatLoading
             /\ tasks' = tasks (+) One(ev'.task)
             /\ ev'.task.issued = <<CHAT_REFINE>>
     /\ ev'.op \in {"sendChat.done", "sendChat.failed"}
          => ev'.task.issued = <<CHAT_REFINE>>
     /\ ChatCallCount' <= 1
     /\ chatLoading' <=> (ChatCallCount' = 1)]_vars

C9_Witness ==
  ev.op = "sendChat.rejected" /\ chatLoading /\ ChatCallCount = 1

\* C10: the conversation of an accepted send is the two-turn preamble presenting
\* the draft of send time, then the whole transcript in order, ending with the
\* new user request; the response is appended as one assistant turn.
C10_ConversationIsPreamblePlusTranscript ==
  [][/\ ev'.op = "sendChat.sent"
          => /\ ev'.task.userMessage \in {Trim(c) : c \in ChatInputs} \ {""}
             /\ chatMessages' =
                  Append(chatMessages, Turn("user", ev'.task.userMessage))
             /\ ev'.task.apiMessages = Preamble(draft) \o chatMessages'
             /\ ev'.task.system = CHAT_REFINE
             /\ ev'.task \in InFlight'
     /\ ev'.op = "sendChat.done"
          => chatMessages' = Append(chatMessages, Turn("assistant", ev'.response))]_vars

C10_Witness ==
  /\ ev.op = "sendChat.sent"
  /\ Len(chatMessages) >= 2
  /\ Len(ev.task.apiMessages) = Len(chatMessages) + 2

-----------------------------------------------------------------------------
(* Properties of the transcript *)

IsPrefix(s, t) == Len(s) <= Len(t) /\ SubSeq(t, 1, Len(s)) = s

\* C11: the transcript is append-only within a session: every step of the
\* mounted component that is not startRefine leaves the previous transcript
\* as a prefix of the new one, be it the sending of a request, the success or
\* the failure of a call, or any other handler running while a call is in
\* flight.  (Loading the page again discards the component and with it the
\* transcript, which is not persisted.)
C11_TranscriptAppendOnly ==
  [][startRefine \/ ev'.op = "mount" \/ IsPrefix(chatMessages, chatMessages')]_vars

\* A second exchange has failed after a first one was answered.
C11_Witness ==
  /\ ev.op = "sendChat.failed"
  /\ Len(chatMessages) >= 4
  /\ \E i \in 1..Len(chatMessages) :
        chatMessages[i].role = "assistant" /\ chatMessages[i].content \in ChatTexts

-----------------------------------------------------------------------------
(* Properties of the library *)

Unique(list) == \A i, j \in 1..Len(list) : list[i].id = list[j].id => i = j

\* C12: in every reachable state no two records of library.sources share an
\* id, nor two of library.drafts, nor two of library.notes, whatever notes
\* were created, drafts and sources saved, records deleted or loaded.
C12_LibraryIdsUnique == \A category \in Categories : Unique(library[category])

\* Sources were saved into a library that held some of them already.
C12_Witness ==
  /\ ev.op = "saveSourcesAll" /\ ev.response = "ok"
  /\ ev.args[1] >= 1 /\ ev.args[1] < Len(sources)
  /\ Len(library.sources) >= 2

\* C13: saving all sources twice in a row gives the library, in memory and
\* persisted, that saving them once gave: the second of two consecutive
\* saveSourcesAll steps changes neither library nor stored.
C13_SaveAllTwiceIsSaveAllOnce ==
  [][(ev.op = "saveSourcesAll" /\ ev'.op = "saveSourcesAll")
       => UNCHANGED <<library, stored>>]_vars

\* saveSourcesAll ran right after a saveSourcesAll that had appended records,
\* whether or not that one reached the storage.
C13_Witness ==
  /\ ev.op = "saveSourcesAll" /\ ev.args[2] = "saveSourcesAll"
  /\ Len(library.sources) >= 1
  /\ stored # Item(Serialize(library))

\* mergeSources(E, S) as the specification words it: E, then the records of
\* S whose id does not occur in E, in their order in S.
NewIn(S, E) == SelectSeq(S, LAMBDA r : \A i \in 1..Len(E) : E[i].id # r.id)

\* C14: saveSourcesAll makes library.sources the old list, unchanged and in
\* its order, followed by exactly the working-set records whose id is not in
\* the old list, in working-set order; drafts and notes are unchanged.
C14_MergeKeepsOldAppendsNew ==
  [][ev'.op = "saveSourcesAll"
       => /\ IsPrefix(library.sources, library'.sources)
          /\ SubSeq(library'.sources, Len(library.sources) + 1, Len(library'.sources))
               = NewIn(sources, library.sources)
          /\ library'.drafts = library.drafts
          /\ library'.notes = library.notes]_vars

\* A merge that kept saved sources, skipped a working-set record already
\* saved and appended new ones, in a library that also holds a draft or a note.
C14_Witness ==
  /\ ev.op = "saveSourcesAll"
  /\ ev.args[1] >= 1 /\ ev.args[1] < Len(sources)
  /\ Len(library.sources) > ev.args[1]
  /\ Len(library.drafts) + Len(library.notes) >= 1

\* list without its k-th record
Without(list, k) == SubSeq(list, 1, k - 1) \o SubSeq(list, k + 1, Len(list))

\* C15: deleteLibItem(category, id) takes the record with that id out of the
\* named list, keeps the other records of the list in their order, and leaves
\* the two other lists and the working set as they were, also when another
\* list or the working set holds a record with the same id.
C15_DeleteTouchesOneList ==
  [][ev'.op = "deleteLibItem"
       => LET category == ev'.args[1]
              id == ev'.args[2]
          IN /\ \E k \in 1..Len(library[category]) :
                     /\ library[category][k].id = id
                     /\ library'[category] = Without(library[category], k)
             /\ \A other \in Categories \ {category} : library'[other] = library[other]
             /\ sources' = sources]_vars

\* A record was deleted from a list that keeps another record, while a second
\* list and the working set still hold a record with the deleted id.
C15_Witness ==
  /\ ev.op = "deleteLibItem"
  /\ Len(library[ev.args[1]]) >= 1
  /\ \E other \in Categories \ {ev.args[1]} : ev.args[2] \in Ids(library[other])
  /\ ev.args[2] \in Ids(sources)

-----------------------------------------------------------------------------
(* Properties of the storage *)

\* The handlers that call saveLibrary; a step of one of them whose event
\* carries an outcome of storage.set has called it.
SaveOps == {"addNote", "saveDraft", "saveSourcesAll", "deleteLibItem"}
SaveStep(e) == e.op \in SaveOps /\ e.response \in SetItemOutcomes

\* C16 as stated: a load that follows a save of L, with no other save in
\* between, returns a library equal to L in its three lists (the read of the
\* load itself succeeding).
C16_SaveThenLoadReturnsSaved ==
  [][(SaveStep(ev) /\ ev'.op = "mount" /\ ev'.response = "ok")
       => library' = library]_vars

\* C16, amended: when the stored text is the one a save of L wrote (the write
\* went through and no other save followed) and the read succeeds, the load
\* returns a library equal to L: same records, same order, in all three lists.
C16_StoredThenLoadReturnsSaved ==
  [][(ev'.op = "mount" /\ ev'.response = "ok" /\ stored = Item(Serialize(library)))
       => library' = library]_vars

\* A load returned a library with two sources that the session before had
\* saved, from the text that save wrote.
C16_Witness ==
  /\ ev.op = "mount" /\ ev.response = "ok"
  /\ Len(library.sources) >= 2
  /\ stored = Item(Serialize(library))

\* A text that parses to a value with the three lists
IsSerializedLibrary(text) == JSONparse(text).ok /\ HasLists(JSONparse(text).value)

\* C17: the value the load-on-mount effect puts into library always has the
\* three lists, and it is the empty library when nothing is stored, when the
\* read threw or when the stored text is not a serialized library.
C17_LoadReturnsThreeLists ==
  ev.op = "mount"
    => /\ HasLists(library)
       /\ (ev.response # "ok" \/ ~stored.present \/ ~IsSerializedLibrary(stored.text))
            => library = EmptyLibrary

Last(list) == list[Len(list)]

\* What a handler that calls saveLibrary makes of the library in memory:
\* e is the event of its step, old and new the library before and after.
LibraryUpdated(e, old, new) ==
  CASE e.op = "addNote" ->
         /\ new.notes = Append(old.notes, Last(new.notes))
         /\ Last(new.notes).id = e.args[1]
    [] e.op = "saveDraft" ->
         /\ new.drafts = Append(old.drafts, Last(new.drafts))
         /\ Last(new.drafts).id = e.args[1]
    [] e.op = "saveSourcesAll" ->
         /\ IsPrefix(old.sources, new.sources)
         /\ Len(new.sources) = Len(old.sources) + e.args[1]
    [] e.op = "deleteLibItem" ->
         /\ e.args[2] \notin Ids(new[e.args[1]])
         /\ Len(new[e.args[1]]) = Len(old[e.args[1]]) - 1

\* C18: when storage.set throws during the save of addNote, saveDraft,
\* saveSourcesAll or deleteLibItem, the handler still completes: the error
\* shown to the user is not touched, the library in memory is the new one and
\* the stored text is the one from before.
C18_FailedSaveIsSilent ==
  [][(SaveStep(ev') /\ ev'.response # "ok")
       => /\ error' = error
          /\ LibraryUpdated(ev', library, library')
          /\ library' # library
          /\ stored' = stored]_vars

\* A save failed over a storage that holds an earlier library.
C18_Witness ==
  /\ SaveStep(ev) /\ ev.response = "QuotaExceededError"
  /\ stored.present
  /\ stored # Item(Serialize(library))
  /\ error = ""

\* The library a load would read from a stored value
Persisted(value) == loadLibrary([threw |-> FALSE, value |-> value])

\* What addNote does in memory: one record of type note, with the id the
\* handler drew, is appended to the working set and to library.notes;
\* library.sources and library.drafts are untouched.
NoteAppended(e, oldSources, newSources, old, new) ==
  /\ Len(newSources) = Len(oldSources) + 1
  /\ newSources = Append(oldSources, Last(newSources))
  /\ new.notes = Append(old.notes, Last(newSources))
  /\ Last(newSources).id = e.args[1]
  /\ Last(newSources).type = "note"
  /\ new.sources = old.sources
  /\ new.drafts = old.drafts

\* C19 as stated: a note created with non-blank content is appended, as one
\* record, to the working set and to the notes of the library in memory and
\* of the persisted library, in that one step; the library's sources and
\* drafts are unchanged.
C19_NoteInWorkingSetAndPersistedNotes ==
  [][ev'.op = "addNote"
       => /\ NoteAppended(ev', sources, sources', library, library')
          /\ Persisted(stored').notes = library'.notes]_vars

\* C19, amended: the note is appended to the working set and to the notes of
\* the in-memory library in that one step; the persisted library is the new
\* in-memory library when storage.set succeeded, and is left as it was when
\* storage.set threw.
C19_NoteInWorkingSetAndNotesSavedIfWritable ==
  [][ev'.op = "addNote"
       => /\ NoteAppended(ev', sources, sources', library, library')
          /\ IF ev'.response = "ok"
               THEN Persisted(stored') = library'
               ELSE stored' = stored]_vars

\* A note was created and persisted while the working set held other sources
\* and the library a draft.
C19_Witness ==
  /\ ev.op = "addNote" /\ ev.response = "ok"
  /\ Len(sources) >= 2
  /\ Len(library.drafts) >= 1
  /\ Last(sources) = Last(library.notes)
  /\ Persisted(stored).notes = library.notes

-----------------------------------------------------------------------------
(* Properties of URL ingestion *)

\* The messages runPipeline can put into error (lines 234 and 262)
PipelineErrors ==
  {"Add at least one source first."}
    \cup {"Pipeline failed at stage " \o ToString(stage) \o ": " \o ApiError(status) :
            stage \in 0..4, status \in Statuses}

\* C20: a failed URL fetch leaves the working set and the library (in memory
\* and stored) unchanged, puts into error a message of its own, which no
\* pipeline failure produces, and clears fetchingUrl; a successful one appends
\* to the working set exactly one source of type url whose title is the URL
\* submitted and whose content is the text returned.
C20_UrlIngestionOutcome ==
  [][/\ ev'.op = "addUrl.failed"
          => /\ sources' = sources
             /\ library' = library /\ stored' = stored
             /\ error' = "URL fetch failed: " \o ev'.response
             /\ error' \notin PipelineErrors
             /\ fetchingUrl' = FALSE
     /\ ev'.op = "addUrl.done"
          => /\ Len(sources') = Len(sources) + 1
             /\ sources' = Append(sources, Last(sources'))
             /\ Last(sources').type = "url"
             /\ Last(sources').title = ev'.task.url
             /\ ev'.task.url \in {Trim(u) : u \in UrlInputs}
             /\ Last(sources').content = ev'.response]_vars

\* A URL fetch failed after an earlier one had added its source.
C20_Witness ==
  /\ ev.op = "addUrl.failed"
  /\ error = "URL fetch failed: " \o FetchFailed("500")
  /\ \E i \in 1..Len(sources) : sources[i].type = "url" /\ sources[i].title = "http://a"
  /\ ~fetchingUrl

-----------------------------------------------------------------------------
(* Properties of the working source set *)

\* C21: removeSource(id) takes exactly the record with that id out of the
\* working set and leaves the library, the stored text, the pipeline
\* artifacts and the transcript as they were; a record of the library with
\* that id is still there and its card loads it into the working set again.
C21_RemoveSourceTouchesWorkingSetOnly ==
  [][ev'.op = "removeSource"
       => LET id == ev'.args[1]
          IN /\ \E k \in 1..Len(sources) :
                     sources[k].id = id /\ sources' = Without(sources, k)
             /\ library' = library /\ stored' = stored
             /\ <<pipelineStage', researchAnalysis', outline', draft'>>
                  = <<pipelineStage, researchAnalysis, outline, draft>>
             /\ chatMessages' = chatMessages
             /\ \A item \in LibraryCards :
                  item.id = id
                    => /\ item \in LibraryCards'
                       /\ item.id \notin Ids(sources')]_vars

\* A source that is also in the library was removed from a working set that
\* keeps another source.
C21_Witness ==
  /\ ev.op = "removeSource"
  /\ Len(sources) >= 1
  /\ \E item \in LibraryCards : item.id = ev.args[1]
  /\ draft # ""

-----------------------------------------------------------------------------
(* Properties of saved drafts *)

\* C22: a record enters library.drafts only by saveDraft, with a non-empty
\* working draft, as the snapshot of the current draft, outline, analysis and
\* format; a record leaves it only by deleteLibItem("drafts", id); every other
\* step of the mounted component, refinement answers and pipeline runs
\* included, keeps every record as it is.  (A load of the page takes the
\* records from the stored text.)
C22_SavedDraftsAreFrozenSnapshots ==
  [][IF ev'.op = "mount"
       THEN Records(library'.drafts) \subseteq Records(Persisted(stored).drafts)
       ELSE /\ \A i \in 1..Len(library'.drafts) :
                 \/ library'.drafts[i] \in Records(library.drafts)
                 \/ /\ ev'.op = "saveDraft" /\ i = Len(library'.drafts)
                    /\ draft # ""
                    /\ library'.drafts[i].id = ev'.args[1]
                    /\ library'.drafts[i].content = draft
                    /\ library'.drafts[i].outline = outline
                    /\ library'.drafts[i].analysis = researchAnalysis
                    /\ library'.drafts[i].format \in Formats
            /\ \A r \in Records(library.drafts) :
                 \/ r \in Records(library'.drafts)
                 \/ ev'.op = "deleteLibItem" /\ ev'.args = <<"drafts", r.id>>]_vars

\* A refinement answer replaced the working draft after that draft had been
\* saved: the saved record still has the text from before.
C22_Witness ==
  /\ ev.op = "sendChat.done" /\ draft = ev.response
  /\ \E i \in 1..Len(library.drafts) :
       /\ library.drafts[i].id # OldDraft.id
       /\ library.drafts[i].content = ev.task.draft0
       /\ library.drafts[i].content # draft

-----------------------------------------------------------------------------
(* Properties of the run state *)

\* A step that issues the Research call of a new run
RunStarted ==
  \E t \in BagToSet(tasks') :
    t.kind = "pipeline" /\ t.pc = 1 /\ CopiesIn(t, tasks') > CopiesIn(t, tasks)

\* C23: an accepted pipeline start clears researchAnalysis, outline, draft
\* and error in the step that issues the Research call, and while stage is 1
\* no artifact is visible: the three are empty.
C23_FreshRunState ==
  [][/\ RunStarted
          => /\ pipelineStage' = 1
             /\ researchAnalysis' = "" /\ outline' = "" /\ draft' = ""
             /\ error' = ""
     /\ pipelineStage' = 1
          => researchAnalysis' = "" /\ outline' = "" /\ draft' = ""]_vars

\* C24: if every issued call is eventually answered, a started run reaches
\* stage 4 or stage 0, an accepted refinement send gets chatLoading cleared
\* and a URL fetch gets fetchingUrl cleared; once nothing is in flight no
\* in-flight marker is left, so the next operation can be started.
C24_InFlightStatesEnd ==
  /\ (pipelineStage \in 1..3) ~> (pipelineStage \in {0, 4})
  /\ chatLoading ~> ~chatLoading
  /\ fetchingUrl ~> ~fetchingUrl
  /\ [](tasks = NoTasks
          => pipelineStage \in {0, 4} /\ ~chatLoading /\ ~fetchingUrl)

\* A run has ended at stage 4 on a source that a URL fetch had delivered, and
\* nothing is in flight.
C24_Witness ==
  /\ ev.op = "runPipeline.done"
  /\ pipelineStage = 4 /\ tasks = NoTasks
  /\ \E i \in 1..Len(sources) : sources[i].type = "url"
  /\ ~fetchingUrl /\ ~chatLoading

\* The saved drafts a session can open: those of the library and the one the
\* storage held at the start.
KnownDrafts ==
  {OldDraft} \cup (IF HasLists(library) THEN Records(library.drafts) ELSE {})

\* The three artifacts are the outputs of a run (the agents' answers are
\* told from the texts of saved drafts by their letters), the draft possibly
\* replaced by a refinement answer.
FromOneRun ==
  /\ researchAnalysis \in ResearchTexts
  /\ outline \in OutlineTexts
  /\ draft \in WritingTexts \cup ChatTexts

\* The three artifacts are those of one saved draft (line 695), the draft
\* possibly replaced by a refinement answer.
FromOneSavedDraft ==
  \E d \in KnownDrafts :
    /\ researchAnalysis = OrElse(d.analysis, "")
    /\ outline = OrElse(d.outline, "")
    /\ draft \in {d.content} \cup ChatTexts

\* C25: whenever stage is 4, researchAnalysis, outline and draft belong
\* together: all three come from one pipeline run or all three from one saved
\* draft, the draft possibly replaced by refinement since.
C25_ArtifactsBelongTogether ==
  pipelineStage = 4 => FromOneRun \/ FromOneSavedDraft

\* The records a load would read from a stored value, with their lists
PersistedRecords(value) ==
  LET lib == Persisted(value)
  IN UNION {{<<c, r>> : r \in Records(lib[c])} : c \in Categories}

\* C26: a record of the persisted library stays persisted until
\* deleteLibItem(category, id) is called for it: no other step (addNote,
\* saveDraft and saveSourcesAll among them) takes it out of storage, and
\* after the load on mount the in-memory library holds every persisted record.
C26_PersistedUntilDeleted ==
  [][/\ \A p \in PersistedRecords(stored) :
          p \in PersistedRecords(stored') \/ <<p[1], p[2].id>> \in deleted'
     /\ ev'.op = "mount"
          => \A p \in PersistedRecords(stored') : p[2] \in Records(library'[p[1]])]_vars

\* C27: a refinement response replaces only the draft shown in the preamble
\* of its own request: when the working draft has changed while the call was
\* in flight the response does not overwrite it, and a response that replaces
\* a draft is longer than half of the draft it replaces.
C27_ResponseReplacesOwnDraftOnly ==
  [][ev'.op = "sendChat.done" /\ draft' # draft
       => /\ draft = ev'.task.draft0
          /\ LooksLikeRevision(ev'.response, draft)]_vars

\* C28: a response or error note is appended to the transcript of the session
\* its request was sent in: the turn before it is the user request it
\* answers, never the opening turn of a session started since.
C28_AnswerFollowsItsRequest ==
  [][ev'.op \in {"sendChat.done", "sendChat.failed"}
       => /\ Len(chatMessages) >= 1
          /\ Last(chatMessages) = Turn("user", ev'.task.userMessage)
          /\ chatMessages' = Append(chatMessages, Last(chatMessages'))
          /\ Last(chatMessages').role = "assistant"]_vars

\* C29: no two records of the working source set share an id, after any
\* sequence of ingestions, removals and loads from the library; loading an
\* entry whose id is in the working set leaves the set unchanged, and loading
\* any other entry appends it.
C29_WorkingSetIdsUnique ==
  [][/\ Unique(sources')
     /\ ev'.op = "loadFromLibrary"
          => IF ev'.args[1] \in Ids(sources)
               THEN sources' = sources
               ELSE \E item \in LibraryCards :
                      item.id = ev'.args[1] /\ sources' = Append(sources, item)]_vars

\* A note that is in both library lists was loaded while it was in the
\* working set, next to a pasted text and a record loaded from the library.
C29_Witness ==
  /\ ev.op = "loadFromLibrary" /\ ev.response = "found"
  /\ HasLists(library)
  /\ \E n \in Records(library.sources) \cap Records(library.notes) :
       n.id = ev.args[1] /\ n \in Records(sources)
  /\ Len(sources) >= 2

\* The draft lengths for which the length test is evaluated directly
MaxDraftLen == 5

\* C30: a refinement turn never turns a non-empty draft into an empty one:
\* an empty response and a failed call leave the draft as it is, and the
\* length test refuses the empty response for every draft length from 0 on.
C30_EmptyResponseNeverReplaces ==
  [][/\ ev'.op \in {"sendChat.done", "sendChat.failed"} /\ draft # ""
          => draft' # ""
     /\ (ev'.op = "sendChat.done" /\ ev'.response = "") \/ ev'.op = "sendChat.failed"
          => draft' = draft
     /\ \A n \in 0..MaxDraftLen : ~LooksLikeRevision("", Text("k", n))]_vars

\* The agent answered a request about a draft of one character with the
\* empty text, and the draft is still there.
C30_Witness ==
  /\ ev.op = "sendChat.done" /\ ev.response = ""
  /\ Len(ev.task.draft0) = 1
  /\ draft = ev.task.draft0

\* C31: when a stage call of a run fails, the recorded error names the stage
\* whose call was in flight (1 Research, 2 Outline, 3 Writing), not the stage
\* value that held when the run was started.
C31_ErrorNamesStageInFlight ==
  [][ev'.op = "runPipeline.failed"
       => /\ ev'.task.pc \in 1..3
          /\ error' = "Pipeline failed at stage " \o ToString(ev'.task.pc) \o ": "
                        \o ev'.response]_vars

====
